---- MODULE Spec2Model ----
(***************************************************************************)
(* web-file-server: the request handler that createFileServer of           *)
(* src/index.ts returns, with the helpers it calls, and the range parser   *)
(* of http-utils.ts.  The filesystem is a map from absolute paths to       *)
(* directories, files and symbolic links.  The body of a streamed response *)
(* is a second state machine: the read loop of the ReadableStream, the     *)
(* file handle and the consumer of the stream.                             *)
(*                                                                         *)
(* Strings are sequences of atoms.  An atom is a one-character string,     *)
(* except for a few multi-character atoms that the code only ever treats   *)
(* as a unit ("bytes=", "%2F", "%", "gzip", ...).  Paths, header values    *)
(* and ETags are such strings, so that split, trim, parseInt, startsWith   *)
(* and string concatenation are computed the way the code computes them.   *)
(***************************************************************************)
EXTENDS Integers, Sequences, FiniteSets, TLC

\* ------------------------------------------------------------------------
\* Bounds of the model
\* ------------------------------------------------------------------------
MaxSize == 3

MaxNum == MaxSize + 1

\* ------------------------------------------------------------------------
\* JavaScript string primitives
\* ------------------------------------------------------------------------
NaN == -1000000

Digits == <<"0", "1", "2", "3", "4", "5", "6", "7", "8", "9">>

IsDigit(c) == \E i \in 1..10 : Digits[i] = c

DigitVal(c) == (CHOOSE i \in 1..10 : Digits[i] = c) - 1

\* String(n) for a non-negative integer n
RECURSIVE ToDigits(_)
ToDigits(n) ==
  IF n < 10 THEN <<Digits[n + 1]>>
  ELSE ToDigits(n \div 10) \o <<Digits[(n % 10) + 1]>>

\* s.indexOf(c) + 1 (0 when absent)
IndexOf(s, c) ==
  IF \E i \in 1..Len(s) : s[i] = c
  THEN CHOOSE i \in 1..Len(s) : s[i] = c /\ \A j \in 1..(i - 1) : s[j] # c
  ELSE 0

\* s.lastIndexOf(c) + 1 (0 when absent)
LastIndexOf(s, c) ==
  IF \E i \in 1..Len(s) : s[i] = c
  THEN CHOOSE i \in 1..Len(s) : s[i] = c /\ \A j \in (i + 1)..Len(s) : s[j] # c
  ELSE 0

\* s.split(sep): always at least one element; "".split(sep) is [""]
RECURSIVE Split(_, _)
Split(s, sep) ==
  LET i == IndexOf(s, sep)
  IN  IF i = 0 THEN <<s>>
      ELSE <<SubSeq(s, 1, i - 1)>> \o Split(SubSeq(s, i + 1, Len(s)), sep)

\* parts.join(sep)
RECURSIVE Join(_, _)
Join(parts, sep) ==
  IF Len(parts) = 0 THEN <<>>
  ELSE IF Len(parts) = 1 THEN parts[1]
  ELSE parts[1] \o <<sep>> \o Join(Tail(parts), sep)

StartsWith(s, p) == Len(s) >= Len(p) /\ SubSeq(s, 1, Len(p)) = p

EndsWith(s, p) == Len(s) >= Len(p) /\ SubSeq(s, Len(s) - Len(p) + 1, Len(s)) = p

RECURSIVE TrimStart(_)
TrimStart(s) == IF Len(s) > 0 /\ s[1] = " " THEN TrimStart(Tail(s)) ELSE s

RECURSIVE TrimEnd(_)
TrimEnd(s) ==
  IF Len(s) > 0 /\ s[Len(s)] = " " THEN TrimEnd(SubSeq(s, 1, Len(s) - 1)) ELSE s

\* s.trim()
Trim(s) == TrimEnd(TrimStart(s))

\* the leading run of decimal digits of s
RECURSIVE DigitPrefix(_)
DigitPrefix(s) ==
  IF Len(s) > 0 /\ IsDigit(s[1]) THEN <<s[1]>> \o DigitPrefix(Tail(s)) ELSE <<>>

RECURSIVE DigitsValue(_)
DigitsValue(d) ==
  IF Len(d) = 0 THEN 0
  ELSE 10 * DigitsValue(SubSeq(d, 1, Len(d) - 1)) + DigitVal(d[Len(d)])

Undefined == <<"undefined">>

\* parseInt(s, 10): leading white space is skipped, an optional sign is
\* read, then the longest run of digits; NaN when there is no digit.
\* parseInt(undefined) is NaN.
parseInt(s) ==
  LET Value(neg, d) ==
        IF Len(d) = 0 THEN NaN
        ELSE IF neg THEN 0 - DigitsValue(d) ELSE DigitsValue(d)
      Signed(t) ==
        Value(Len(t) > 0 /\ t[1] = "-",
              DigitPrefix(IF Len(t) > 0 /\ t[1] \in {"-", "+"} THEN Tail(t) ELSE t))
  IN  IF s = Undefined THEN NaN ELSE Signed(TrimStart(s))

IsNaN(x) == x = NaN

\* variant: the second argument, whichever is larger
MathMax_second(a, b) == IF IsNaN(a) \/ IsNaN(b) THEN NaN ELSE b

\* Math.max / Math.min: NaN when any argument is NaN
MathMax(a, b) == IF IsNaN(a) \/ IsNaN(b) THEN NaN ELSE IF a >= b THEN a ELSE b

MathMin(a, b) == IF IsNaN(a) \/ IsNaN(b) THEN NaN ELSE IF a <= b THEN a ELSE b

\* a - b on JavaScript numbers
NumSub(a, b) == IF IsNaN(a) \/ IsNaN(b) THEN NaN ELSE a - b

\* s.replace(/bytes=/, ""): the first occurrence of "bytes=" is removed
ReplaceBytesEq(s) ==
  LET i == IndexOf(s, "bytes=")
  IN  IF i = 0 THEN s ELSE SubSeq(s, 1, i - 1) \o SubSeq(s, i + 1, Len(s))

\* ------------------------------------------------------------------------
\* node:path (POSIX)
\* ------------------------------------------------------------------------
\* the segments of a path string: empty segments are dropped
Segments(p) == SelectSeq(Split(p, "/"), LAMBDA seg : seg # <<>>)

\* normalisation of a segment list: "." is dropped, ".." removes the
\* previous segment and is dropped at the filesystem root
RECURSIVE NormalizeSegs(_, _)
NormalizeSegs(acc, segs) ==
  IF Len(segs) = 0 THEN acc
  ELSE IF segs[1] = <<".">> THEN NormalizeSegs(acc, Tail(segs))
  ELSE IF segs[1] = <<".", ".">>
       THEN NormalizeSegs(IF Len(acc) = 0 THEN acc ELSE SubSeq(acc, 1, Len(acc) - 1),
                          Tail(segs))
  ELSE NormalizeSegs(Append(acc, segs[1]), Tail(segs))

AbsString(segs) == <<"/">> \o Join(segs, "/")

IsAbsolute(p) == Len(p) > 0 /\ p[1] = "/"

\* path.resolve(base, rel) for an absolute base
resolve(base, rel) ==
  IF IsAbsolute(rel) THEN AbsString(NormalizeSegs(<<>>, Segments(rel)))
  ELSE AbsString(NormalizeSegs(<<>>, Segments(base) \o Segments(rel)))

RECURSIVE CommonPrefixLen(_, _)
CommonPrefixLen(a, b) ==
  IF Len(a) = 0 \/ Len(b) = 0 \/ a[1] # b[1] THEN 0
  ELSE 1 + CommonPrefixLen(Tail(a), Tail(b))

\* path.relative(from, to) for two absolute normalised paths
relative(from, to) ==
  LET Ups(n) == [i \in 1..n |-> <<".", ".">>]
      Rel(f, t, c) == Join(Ups(Len(f) - c) \o SubSeq(t, c + 1, Len(t)), "/")
      From(f, t) == Rel(f, t, CommonPrefixLen(f, t))
  IN  From(Segments(from), Segments(to))

\* path.extname(p)
extname(p) ==
  LET Ext(base, i) ==
        IF i <= 1 \/ base = <<".", ".">> THEN <<>> ELSE SubSeq(base, i, Len(base))
      Base(base) == Ext(base, LastIndexOf(base, "."))
      Last(segs) == Base(IF Len(segs) = 0 THEN <<>> ELSE segs[Len(segs)])
  IN  Last(Segments(p))

\* process.cwd(): some absolute directory
Cwd == <<"/", "h">>

\* ------------------------------------------------------------------------
\* Filesystem collaborator (node:fs): stat and open follow symbolic links
\* ------------------------------------------------------------------------
NoNode == [kind |-> "none", data |-> <<>>, mtime |-> 0, target |-> <<>>]

DirNode == [kind |-> "dir", data |-> <<>>, mtime |-> 0, target |-> <<>>]

FileNode(data, mtime) == [kind |-> "file", data |-> data, mtime |-> mtime, target |-> <<>>]

\* a regular file the process has no permission to read (EACCES on open)
UnreadableNode(data, mtime) ==
  [kind |-> "unreadable", data |-> data, mtime |-> mtime, target |-> <<>>]

LinkNode(target) == [kind |-> "link", data |-> <<>>, mtime |-> 0, target |-> target]

Lookup(f, p) == IF p \in DOMAIN f THEN f[p] ELSE NoNode

\* number of symbolic links followed before ELOOP
MaxLinks == 4

\* resolution of a segment list to the node it names: every symbolic link
\* on the way, the last component included, is replaced by its target
RECURSIVE Walk(_, _, _, _)
Walk(f, cur, rest, fuel) ==
  LET Step(nxt, node) ==
        IF node.kind = "none" THEN [ok |-> FALSE, path |-> <<>>]
        ELSE IF node.kind = "link"
             THEN IF fuel = 0 THEN [ok |-> FALSE, path |-> <<>>]
                  ELSE Walk(f, <<>>, Segments(node.target) \o Tail(rest), fuel - 1)
        ELSE IF node.kind \in {"file", "unreadable"} /\ Len(rest) > 1 THEN [ok |-> FALSE, path |-> <<>>]
        ELSE Walk(f, nxt, Tail(rest), fuel)
      Enter(nxt) == Step(nxt, Lookup(f, AbsString(nxt)))
  IN  IF Len(rest) = 0 THEN [ok |-> TRUE, path |-> AbsString(cur)]
      ELSE Enter(Append(cur, rest[1]))

NoStats == [ok |-> FALSE, isFile |-> FALSE, isDirectory |-> FALSE, size |-> 0,
            mtime |-> 0, real |-> <<>>]

\* fs.stat(p): ok = FALSE stands for the rejected promise (ENOENT, ENOTDIR,
\* ELOOP).  real is the location of the node the metadata was read from.
stat(f, p) ==
  LET Stats(w, node) ==
        [ok |-> TRUE, isFile |-> node.kind \in {"file", "unreadable"},
         isDirectory |-> node.kind = "dir",
         size |-> Len(node.data), mtime |-> node.mtime, real |-> w.path]
      Of(w) ==
        IF ~w.ok THEN NoStats
        ELSE Stats(w, IF w.path = <<"/">> THEN DirNode ELSE Lookup(f, w.path))
  IN  Of(Walk(f, <<>>, Segments(p), MaxLinks))

\* fs.open(p, "r"): the handle reads the node the path resolves to
open(f, p) ==
  LET Handle(w) ==
        IF ~w.ok THEN [ok |-> FALSE, real |-> <<>>, data |-> <<>>]
        ELSE IF Lookup(f, w.path).kind = "unreadable"
        THEN [ok |-> FALSE, real |-> <<>>, data |-> <<>>]
        ELSE [ok |-> TRUE, real |-> w.path, data |-> Lookup(f, w.path).data]
  IN  Handle(Walk(f, <<>>, Segments(p), MaxLinks))

\* ------------------------------------------------------------------------
\* src/index.ts: helpers of the handler
\* ------------------------------------------------------------------------
\* decodeURIComponent: "%2F" and "%2E" are valid escapes, "%" is an escape
\* sequence that does not decode (URIError)
DecodeAtom(c) == IF c = "%2F" THEN "/" ELSE IF c = "%2E" THEN "." ELSE c

decodeURIComponent(s) ==
  IF \E i \in 1..Len(s) : s[i] = "%" THEN [ok |-> FALSE, value |-> <<>>]
  ELSE [ok |-> TRUE, value |-> [i \in 1..Len(s) |-> DecodeAtom(s[i])]]

\* s.replace(/^\/+/, "")
RECURSIVE StripLeadingSlashes(_)
StripLeadingSlashes(s) ==
  IF Len(s) > 0 /\ s[1] = "/" THEN StripLeadingSlashes(Tail(s)) ELSE s

\* variant: only the absolute-path test, without the `..` prefix test
resolveFilePath_noDotDot(pathname, root) ==
  LET Check(requestedPath, relativeToRoot) ==
        IF resolve(Cwd, relativeToRoot) = relativeToRoot
        THEN [filePath |-> <<>>, isValid |-> FALSE]
        ELSE [filePath |-> requestedPath, isValid |-> TRUE]
      Within(absoluteRoot, requestedPath) ==
        Check(requestedPath, relative(absoluteRoot, requestedPath))
      Join2(absoluteRoot, relativePath) ==
        Within(absoluteRoot, resolve(absoluteRoot, relativePath))
      Decoded(decoded) ==
        IF ~decoded.ok THEN [filePath |-> <<>>, isValid |-> FALSE]
        ELSE Join2(resolve(Cwd, root), StripLeadingSlashes(decoded.value))
  IN  Decoded(decodeURIComponent(pathname))

resolveFilePath(pathname, root) ==
  LET Check(requestedPath, relativeToRoot) ==
        IF StartsWith(relativeToRoot, <<".", ".">>)
           \/ resolve(Cwd, relativeToRoot) = relativeToRoot
        THEN [filePath |-> <<>>, isValid |-> FALSE]
        ELSE [filePath |-> requestedPath, isValid |-> TRUE]
      Within(absoluteRoot, requestedPath) ==
        Check(requestedPath, relative(absoluteRoot, requestedPath))
      Join2(absoluteRoot, relativePath) ==
        Within(absoluteRoot, resolve(absoluteRoot, relativePath))
      Decoded(decoded) ==
        IF ~decoded.ok THEN [filePath |-> <<>>, isValid |-> FALSE]
        ELSE Join2(resolve(Cwd, root), StripLeadingSlashes(decoded.value))
  IN  Decoded(decodeURIComponent(pathname))

MIME_TYPES ==
  [e \in {<<".", "h", "t", "m">>, <<".", "j", "s">>, <<".", "g", "z">>} |->
     IF e = <<".", "h", "t", "m">> THEN <<"text/html">>
     ELSE IF e = <<".", "j", "s">> THEN <<"text/javascript">>
     ELSE <<"application/gzip">>]

getMimeType(filePath) ==
  LET ext == extname(filePath)
  IN  IF ext \in DOMAIN MIME_TYPES THEN MIME_TYPES[ext] ELSE <<"application/octet-stream">>

\* the first 16 hex characters of the SHA-256 digest of the input: a string
\* of digest atoms, a different one for every input (collisions are not
\* modelled); a digest atom is never a quote, a comma, a space or "*"
Sha256Hex16(input) == [i \in 1..Len(input) |-> "#" \o input[i]]

\* variant: the validator is the unhashed `size, mtime` pair
generateETag_plain(stats, filePath, weak) ==
  LET etag == ToDigits(stats.size) \o <<",", " ">> \o ToDigits(stats.mtime)
  IN  IF weak THEN <<"W/", "\"">> \o etag \o <<"\"">>
      ELSE <<"\"">> \o etag \o <<"\"">>

\* stats.mtime.getTime() is the modification time in milliseconds
generateETag(stats, filePath, weak) ==
  LET etag == Sha256Hex16(ToDigits(stats.size) \o <<"-">> \o ToDigits(stats.mtime)
                          \o <<"-">> \o filePath)
  IN  IF weak THEN <<"W/", "\"">> \o etag \o <<"\"">>
      ELSE <<"\"">> \o etag \o <<"\"">>

\* no RangeSpec: the null that parseRange returns
NoRange == [ok |-> FALSE, start |-> 0, end |-> 0, contentLength |-> 0]

\* variant: contentLength is end - start
index_parseRange_short(rangeHeader, fileSize) ==
  LET Validate(start, end) ==
        IF IsNaN(start) \/ IsNaN(end) \/ start >= fileSize \/ end >= fileSize
           \/ start > end
        THEN NoRange
        ELSE [ok |-> TRUE, start |-> start, end |-> end, contentLength |-> end - start]
      Bounds(startStr, endStr) ==
        Validate(IF startStr = <<>> THEN MathMax(0, NumSub(fileSize, parseInt(endStr)))
                 ELSE parseInt(startStr),
                 IF startStr = <<>> \/ endStr = <<>> THEN fileSize - 1
                 ELSE parseInt(endStr))
      Parts(parts) == Bounds(parts[1], IF Len(parts) >= 2 THEN parts[2] ELSE Undefined)
      First(range) == IF range = <<>> THEN NoRange ELSE Parts(Split(range, "-"))
  IN  First(Split(ReplaceBytesEq(rangeHeader), ",")[1])

\* variant: the range is not compared with the file size
index_parseRange_unchecked(rangeHeader, fileSize) ==
  LET Validate(start, end) ==
        IF IsNaN(start) \/ IsNaN(end) \/ start > end
        THEN NoRange
        ELSE [ok |-> TRUE, start |-> start, end |-> end, contentLength |-> end - start + 1]
      Bounds(startStr, endStr) ==
        Validate(IF startStr = <<>> THEN MathMax(0, NumSub(fileSize, parseInt(endStr)))
                 ELSE parseInt(startStr),
                 IF startStr = <<>> \/ endStr = <<>> THEN fileSize - 1
                 ELSE parseInt(endStr))
      Parts(parts) == Bounds(parts[1], IF Len(parts) >= 2 THEN parts[2] ELSE Undefined)
      First(range) == IF range = <<>> THEN NoRange ELSE Parts(Split(range, "-"))
  IN  First(Split(ReplaceBytesEq(rangeHeader), ",")[1])

\* range parser of src/index.ts
index_parseRange(rangeHeader, fileSize) ==
  LET Validate(start, end) ==
        IF IsNaN(start) \/ IsNaN(end) \/ start >= fileSize \/ end >= fileSize
           \/ start > end
        THEN NoRange
        ELSE [ok |-> TRUE, start |-> start, end |-> end, contentLength |-> end - start + 1]
      Bounds(startStr, endStr) ==
        Validate(IF startStr = <<>> THEN MathMax(0, NumSub(fileSize, parseInt(endStr)))
                 ELSE parseInt(startStr),
                 IF startStr = <<>> \/ endStr = <<>> THEN fileSize - 1
                 ELSE parseInt(endStr))
      Parts(parts) == Bounds(parts[1], IF Len(parts) >= 2 THEN parts[2] ELSE Undefined)
      First(range) == IF range = <<>> THEN NoRange ELSE Parts(Split(range, "-"))
  IN  First(Split(ReplaceBytesEq(rangeHeader), ",")[1])

\* range parser of src/http-utils.ts; throws = TRUE stands for the
\* FileServerError MULTIPLE_RANGES_NOT_SUPPORTED
httputils_parseRange(rangeHeader, fileSize) ==
  LET none == [ok |-> FALSE, throws |-> FALSE, start |-> 0, end |-> 0, contentLength |-> 0]
      Clamp(start, end) ==
        [ok |-> TRUE, throws |-> FALSE, start |-> start, end |-> end,
         contentLength |-> end - start + 1]
      Validate(start, end) ==
        IF start >= fileSize \/ start > end THEN none
        ELSE Clamp(start, MathMin(end, fileSize - 1))
      Suffix(suffixLength) ==
        IF IsNaN(suffixLength) \/ suffixLength <= 0 THEN none
        ELSE Validate(MathMax(0, fileSize - suffixLength), fileSize - 1)
      From(start) ==
        IF IsNaN(start) \/ start < 0 THEN none ELSE Validate(start, fileSize - 1)
      Full(start, end) ==
        IF IsNaN(start) \/ IsNaN(end) \/ start < 0 \/ end < 0 THEN none
        ELSE Validate(start, end)
      Bounds(startStr, endStr) ==
        IF startStr = <<>> /\ endStr # <<>> THEN Suffix(parseInt(endStr))
        ELSE IF startStr # <<>> /\ endStr = <<>> THEN From(parseInt(startStr))
        ELSE IF startStr # <<>> /\ endStr # <<>>
             THEN Full(parseInt(startStr), parseInt(endStr))
        ELSE none
      Parts(parts) == Bounds(parts[1], IF Len(parts) >= 2 THEN parts[2] ELSE Undefined)
      First(range) == IF range = <<>> THEN none ELSE Parts(Split(range, "-"))
      Ranges(ranges) ==
        IF Len(ranges) > 1 THEN [none EXCEPT !.throws = TRUE]
        ELSE First(Trim(ranges[1]))
  IN  IF fileSize = 0 THEN none
      ELSE Ranges(Split(ReplaceBytesEq(rangeHeader), ","))

\* parseFloat(s) in thousandths: optional sign, digits, optional fraction;
\* NaN when there is no digit
parseFloat(s) ==
  LET Value(neg, ip, fp) ==
        IF Len(ip) = 0 /\ Len(fp) = 0 THEN NaN
        ELSE IF neg
             THEN 0 - (1000 * DigitsValue(ip)
                         + DigitsValue(SubSeq(fp \o <<"0", "0", "0">>, 1, 3)))
        ELSE 1000 * DigitsValue(ip) + DigitsValue(SubSeq(fp \o <<"0", "0", "0">>, 1, 3))
      Fraction(neg, ip, rest) ==
        Value(neg, ip,
              IF Len(rest) > 0 /\ rest[1] = "." THEN DigitPrefix(Tail(rest)) ELSE <<>>)
      Whole(neg, u, ip) == Fraction(neg, ip, SubSeq(u, Len(ip) + 1, Len(u)))
      Unsigned(neg, u) == Whole(neg, u, DigitPrefix(u))
      Signed(t) ==
        Unsigned(Len(t) > 0 /\ t[1] = "-",
                 IF Len(t) > 0 /\ t[1] \in {"-", "+"} THEN Tail(t) ELSE t)
  IN  Signed(TrimStart(s))

\* s.replace("q=", "")
ReplaceQEq(s) ==
  LET i == IndexOf(s, "q=")
  IN  IF i = 0 THEN s ELSE SubSeq(s, 1, i - 1) \o SubSeq(s, i + 1, Len(s))

\* one element of the Accept-Encoding list: [encoding, q = "q=1"] = enc.trim().split(";"),
\* quality = parseFloat(q.replace("q=", "")) || 1
ParseEncoding(enc) ==
  LET Entry(encoding, pf) ==
        [encoding |-> Trim(encoding), quality |-> IF IsNaN(pf) \/ pf = 0 THEN 1000 ELSE pf]
      Parts(parts) ==
        Entry(parts[1],
              parseFloat(ReplaceQEq(IF Len(parts) >= 2 THEN parts[2] ELSE <<"q=", "1">>)))
  IN  Parts(Split(Trim(enc), ";"))

\* insertion of e into a list sorted by descending quality, after the
\* elements of equal quality (Array.prototype.sort is stable)
RECURSIVE InsertByQuality(_, _)
InsertByQuality(sorted, e) ==
  IF Len(sorted) = 0 THEN <<e>>
  ELSE IF sorted[1].quality >= e.quality
       THEN <<sorted[1]>> \o InsertByQuality(Tail(sorted), e)
  ELSE <<e>> \o sorted

RECURSIVE SortByQuality(_, _)
SortByQuality(acc, rest) ==
  IF Len(rest) = 0 THEN acc
  ELSE SortByQuality(InsertByQuality(acc, rest[1]), Tail(rest))

Null == <<"null">>

\* !value of a string | null
Falsy(s) == s = Null \/ s = <<>>

InSeq(x, seq) == \E i \in 1..Len(seq) : seq[i] = x

\* Null when no encoding is selected
parseAcceptEncoding(acceptEncoding, supportedEncodings) ==
  LET Pick(hits) == IF Len(hits) = 0 THEN Null ELSE hits[1].encoding
      Sorted(encodings) ==
        Pick(SelectSeq(encodings, LAMBDA e : InSeq(e.encoding, supportedEncodings)))
      Parsed(raw) ==
        Sorted(SortByQuality(<<>>,
                 SelectSeq([i \in 1..Len(raw) |-> ParseEncoding(raw[i])],
                           LAMBDA e : e.quality > 0)))
  IN  IF Falsy(acceptEncoding) THEN Null
      ELSE Parsed(Split(acceptEncoding, ","))

\* Null when there is no extension for the encoding or stat fails; statted
\* is the set of locations whose metadata was read
findPrecompressedFile(f, filePath, encoding) ==
  LET Stat(compressedPath, st) ==
        IF st.ok THEN [path |-> compressedPath, statted |-> {st.real}]
        ELSE [path |-> Null, statted |-> {}]
      Ext(ext) ==
        IF ext = <<>> THEN [path |-> Null, statted |-> {}]
        ELSE Stat(filePath \o ext, stat(f, filePath \o ext))
  IN  Ext(IF encoding = <<"br">> THEN <<".", "b", "r">>
          ELSE IF encoding \in {<<"gzip">>, <<"deflate">>} THEN <<".", "g", "z">>
          ELSE <<>>)

\* cacheControl is undefined, one string, or an ordered list of patterns
\* [suffix, value]: the pattern "<suffix>$" matches the paths ending in suffix
getCacheControl(filePath, cacheControl) ==
  LET First(hits) == IF Len(hits) = 0 THEN Null ELSE hits[1].value
  IN  IF cacheControl.kind = "undefined" THEN Null
      ELSE IF cacheControl.kind = "string" THEN cacheControl.value
      ELSE First(SelectSeq(cacheControl.patterns,
                           LAMBDA r : EndsWith(filePath, r.suffix)))

\* dotfile check of src/index.ts: only the last component of the path
index_shouldServeDotfile(filePath, dotfiles) ==
  LET parts == Split(filePath, "/")
      fileName == parts[Len(parts)]
      isDotfile == StartsWith(fileName, <<".">>)
  IN  IF ~isDotfile THEN TRUE ELSE dotfiles = "allow"

\* shouldServeDotfile of src/fs-utils.ts: every component of the path
fsutils_shouldServeDotfile(filePath, dotfiles) ==
  LET pathParts == SelectSeq(Split(filePath, "/"), LAMBDA part : part # <<>>)
      isDotfile == \E i \in 1..Len(pathParts) : StartsWith(pathParts[i], <<".">>)
  IN  IF ~isDotfile THEN TRUE ELSE dotfiles = "allow"

\* ------------------------------------------------------------------------
\* Responses
\* ------------------------------------------------------------------------
NullBody == [kind |-> "null", text |-> "", bytes |-> <<>>]

TextBody(t) == [kind |-> "text", text |-> t, bytes |-> <<>>]

\* a ReadableStream body: bytes is what a consumer that reads to the end receives
StreamBody(b) == [kind |-> "stream", text |-> "", bytes |-> b]

BufferBody(b) == [kind |-> "buffer", text |-> "", bytes |-> b]

NoHeaders == [n \in {} |-> <<>>]

\* { ...a, ...b }: the later spread wins
Spread(a, b) == b @@ a

\* ...(value && { name: value })
Opt(name, value) == IF Falsy(value) THEN NoHeaders ELSE (name :> value)

\* headers.get(name): Null when the header is absent
Get(headers, name) == IF name \in DOMAIN headers THEN headers[name] ELSE Null

\* statted / opened: the locations (after symbolic links are followed) whose
\* metadata the handler read, and that it opened for the body
Response(status, headers, body, statted, opened) ==
  [status |-> status, headers |-> headers, body |-> body,
   statted |-> statted, opened |-> opened]

\* variant: the catch block rethrows, the promise of the handler rejects
\* (status 0: no response)
ServerError_rethrow(statted) == Response(0, NoHeaders, NullBody, statted, {})

\* the catch blocks around the body and around the whole handler
ServerError(statted) ==
  Response(500, NoHeaders, TextBody("Internal Server Error"), statted, {})

\* Date.prototype.toUTCString(): second precision
toUTCString(mtime) == <<"date:">> \o ToDigits(mtime \div 1000)

\* new Date(s).getTime(): NaN for a string that is not a date
DateParse(s) ==
  IF Len(s) >= 2 /\ s[1] = "date:" /\ DigitPrefix(Tail(s)) = Tail(s)
  THEN 1000 * DigitsValue(Tail(s))
  ELSE NaN

\* fileDate.setMilliseconds(0) left out: the time as it is
setMilliseconds_kept(time, ms) == time

\* date.setMilliseconds(ms) on a time in milliseconds
setMilliseconds(time, ms) == (time \div 1000) * 1000 + ms

chunkSize == 65536

\* the read loop of the stream: the chunks enqueued until bytesRemaining is 0
\* or read returns 0 bytes (end of file)
RECURSIVE ReadLoop(_, _, _)
ReadLoop(data, position, bytesRemaining) ==
  LET Read(bytesRead) ==
        IF bytesRead = 0 THEN <<>>
        ELSE <<SubSeq(data, position + 1, position + bytesRead)>>
             \o ReadLoop(data, position + bytesRead, bytesRemaining - bytesRead)
  IN  IF bytesRemaining <= 0 THEN <<>>
      ELSE Read(MathMin(MathMin(chunkSize, bytesRemaining),
                        IF Len(data) > position THEN Len(data) - position ELSE 0))

RECURSIVE Concat(_)
Concat(chunks) == IF Len(chunks) = 0 THEN <<>> ELSE chunks[1] \o Concat(Tail(chunks))

\* fileHandle.read(buffer, 0, length, position) into a zero-filled buffer
ReadInto(data, length, position) ==
  [i \in 1..length |-> IF position + i <= Len(data) THEN data[position + i] ELSE 0]

\* the directory index loop: the first index file that is a regular file
RECURSIVE IndexLookup(_, _, _, _)
IndexLookup(f, filePath, index, statted) ==
  LET Try(indexPath, indexStats) ==
        IF indexStats.ok /\ indexStats.isFile
        THEN [found |-> TRUE, filePath |-> indexPath, stats |-> indexStats,
              statted |-> statted \cup {indexStats.real}]
        ELSE IndexLookup(f, filePath, Tail(index),
                         IF indexStats.ok THEN statted \cup {indexStats.real}
                         ELSE statted)
      At(indexPath) == Try(indexPath, stat(f, indexPath))
  IN  IF Len(index) = 0
      THEN [found |-> FALSE, filePath |-> filePath, stats |-> NoStats, statted |-> statted]
      ELSE At(resolve(filePath, index[1]))

\* compression negotiation and pre-compressed lookup
Negotiate(f, cfg, request, filePath, fileStats) ==
  LET none == [finalFilePath |-> filePath, contentEncoding |-> Null,
               fileStats |-> fileStats, statted |-> {}]
      Stat(preferredEncoding, pre, st) ==
        IF ~st.ok THEN none
        ELSE [finalFilePath |-> pre.path, contentEncoding |-> preferredEncoding,
              fileStats |-> st, statted |-> pre.statted \cup {st.real}]
      Found(preferredEncoding, pre) ==
        IF pre.path = Null THEN none
        ELSE Stat(preferredEncoding, pre, stat(f, pre.path))
      Preferred(preferredEncoding) ==
        IF Falsy(preferredEncoding) \/ ~cfg.precompressed THEN none
        ELSE Found(preferredEncoding, findPrecompressedFile(f, filePath, preferredEncoding))
  IN  IF Len(cfg.supportedEncodings) = 0 THEN none
      ELSE Preferred(parseAcceptEncoding(Get(request.headers, "accept-encoding"),
                                         cfg.supportedEncodings))

\* ETag, range, conditional requests, headers and body for the file to serve
ServeFile(f, cfg, request, filePath, neg, statted) ==
  LET fileStats == neg.fileStats
      rangeHeader == Get(request.headers, "range")
      ifNoneMatch == Get(request.headers, "if-none-match")
      ifModifiedSince == Get(request.headers, "if-modified-since")
      TrimAll(tags) == [i \in 1..Len(tags) |-> Trim(tags[i])]
      Stream(start, end, handle) ==
        StreamBody(Concat(ReadLoop(handle.data, start, end - start + 1)))
      Body(rangeRequest, handle) ==
        IF cfg.streaming
        THEN IF rangeRequest.ok THEN Stream(rangeRequest.start, rangeRequest.end, handle)
             ELSE Stream(0, fileStats.size - 1, handle)
        ELSE IF rangeRequest.ok
        THEN BufferBody(ReadInto(handle.data, rangeRequest.contentLength,
                                 rangeRequest.start))
        ELSE BufferBody(handle.data)
      Headers(etagValue, rangeRequest) ==
        Spread(Spread(Spread(Spread(Spread(
          ("Content-Type" :> getMimeType(filePath))
            @@ ("Content-Length" :> ToDigits(IF rangeRequest.ok
                                             THEN rangeRequest.contentLength
                                             ELSE fileStats.size))
            @@ ("Last-Modified" :> toUTCString(fileStats.mtime))
            @@ ("Accept-Ranges" :> <<"bytes">>),
          Opt("ETag", etagValue)),
          Opt("Content-Encoding", neg.contentEncoding)),
          Opt("Cache-Control", getCacheControl(filePath, cfg.cacheControl))),
          IF rangeRequest.ok
          THEN ("Content-Range" :> <<"bytes", " ">> \o ToDigits(rangeRequest.start)
                  \o <<"-">> \o ToDigits(rangeRequest.end) \o <<"/">>
                  \o ToDigits(fileStats.size))
          ELSE NoHeaders),
          cfg.headers)
      Send(etagValue, rangeRequest, handle) ==
        IF ~handle.ok
        THEN ServerError(statted)
        ELSE Response(IF rangeRequest.ok THEN 206 ELSE 200,
                      Headers(etagValue, rangeRequest), Body(rangeRequest, handle),
                      statted, {handle.real})
      Conditional(etagValue, rangeRequest, clientETags, clientDate) ==
        IF ~Falsy(ifNoneMatch) /\ ~Falsy(etagValue)
           /\ (InSeq(etagValue, clientETags) \/ InSeq(<<"*">>, clientETags))
        THEN Response(304,
               Spread(("ETag" :> etagValue)
                        @@ ("Last-Modified" :> toUTCString(fileStats.mtime)),
                      cfg.headers),
               NullBody, statted, {})
        ELSE IF ~Falsy(ifModifiedSince) /\ Falsy(ifNoneMatch)
                /\ ~IsNaN(clientDate) /\ setMilliseconds(fileStats.mtime, 0) <= clientDate
        THEN Response(304,
               Spread(Spread(("Last-Modified" :> toUTCString(fileStats.mtime)),
                             Opt("ETag", etagValue)),
                      cfg.headers),
               NullBody, statted, {})
        ELSE Send(etagValue, rangeRequest, open(f, neg.finalFilePath))
      Range(etagValue, rangeRequest) ==
        IF ~Falsy(rangeHeader) /\ ~rangeRequest.ok
        THEN Response(416,
               Spread(Spread(("Content-Range" :> <<"bytes", " ", "*", "/">>
                                                   \o ToDigits(fileStats.size)),
                             Opt("ETag", etagValue)),
                      cfg.headers),
               TextBody("Range Not Satisfiable"), statted, {})
        ELSE Conditional(etagValue, rangeRequest, TrimAll(Split(ifNoneMatch, ",")),
                         DateParse(ifModifiedSince))
  IN  Range(IF cfg.etag = "false" THEN Null
            ELSE generateETag(fileStats, filePath, cfg.etag = "weak"),
            IF Falsy(rangeHeader) THEN NoRange
            ELSE index_parseRange(rangeHeader, fileStats.size))

\* path resolution, dotfile policy, stat and directory index: status 0 when
\* a file to serve was found, else the status of the terminal response
Locate(f, cfg, request) ==
  LET Fail(status, statted) ==
        [status |-> status, filePath |-> <<>>, stats |-> NoStats, statted |-> statted]
      Index(ix) ==
        IF ~ix.found THEN Fail(404, ix.statted)
        ELSE [status |-> 0, filePath |-> ix.filePath, stats |-> ix.stats,
              statted |-> ix.statted]
      Stat(res, st) ==
        IF ~st.ok THEN Fail(404, {})
        ELSE IF ~st.isDirectory
        THEN [status |-> 0, filePath |-> res.filePath, stats |-> st, statted |-> {st.real}]
        ELSE Index(IndexLookup(f, res.filePath, cfg.index, {st.real}))
      Resolved(res) ==
        IF ~res.isValid THEN Fail(403, {})
        ELSE IF ~index_shouldServeDotfile(res.filePath, cfg.dotfiles) THEN Fail(404, {})
        ELSE Stat(res, stat(f, res.filePath))
  IN  Resolved(resolveFilePath(request.pathname, cfg.root))

\* the request handler returned by createFileServer
handler(f, cfg, request) ==
  LET Found(loc, neg) ==
        ServeFile(f, cfg, request, loc.filePath, neg, loc.statted \cup neg.statted)
      Located(loc) ==
        IF loc.status = 403
        THEN Response(403, NoHeaders, TextBody("Forbidden"), loc.statted, {})
        ELSE IF loc.status = 404
        THEN Response(404, NoHeaders, TextBody("Not Found"), loc.statted, {})
        ELSE Found(loc, Negotiate(f, cfg, request, loc.filePath, loc.stats))
  IN  IF request.method # "GET"
      THEN Response(405, ("Allow" :> <<"GET">>), TextBody("Method Not Allowed"), {}, {})
      ELSE Located(Locate(f, cfg, request))

\* ------------------------------------------------------------------------
\* createFileServer: options and their defaults
\* ------------------------------------------------------------------------
Root == <<"/", "w">>

IndexNames == << <<"j", ".", "h", "t", "m">>, <<"i", ".", "h", "t", "m">> >>

AllEncodings == << <<"br">>, <<"gzip">>, <<"deflate">> >>

\* compression: true, false or an array of encodings
CompressionOptions ==
  { [isArray |-> FALSE, on |-> TRUE, list |-> <<>>],
    [isArray |-> FALSE, on |-> FALSE, list |-> <<>>],
    [isArray |-> TRUE, on |-> TRUE, list |-> << <<"gzip">> >>] }

HeaderOptions ==
  { NoHeaders,
    ("X-Powered-By" :> <<"app">>),
    ("Content-Length" :> <<"9">>) @@ ("Content-Range" :> <<"bytes", " ", "x">>)
      @@ ("ETag" :> <<"\"", "x", "\"">>) @@ ("Content-Type" :> <<"text/plain">>) }

CacheControlOptions ==
  { [kind |-> "undefined", value |-> <<>>, patterns |-> <<>>],
    [kind |-> "string", value |-> <<"no-cache">>, patterns |-> <<>>],
    [kind |-> "patterns", value |-> <<>>,
     patterns |-> << [suffix |-> <<".", "j", "s">>, value |-> <<"max-age=3600">>],
                     [suffix |-> <<"s">>, value |-> <<"max-age=60">>] >>] }

\* root and index as the caller gives them, every other option at its default
DefaultOptions ==
  [root |-> Root, index |-> IndexNames, dotfiles |-> "ignore", headers |-> NoHeaders,
   streaming |-> TRUE, etag |-> "true",
   compression |-> [isArray |-> FALSE, on |-> TRUE, list |-> <<>>],
   precompressed |-> TRUE,
   cacheControl |-> [kind |-> "undefined", value |-> <<>>, patterns |-> <<>>]]

OptionFields ==
  {"dotfiles", "headers", "streaming", "etag", "compression", "precompressed",
   "cacheControl"}

AllOptions ==
  [root : {Root}, index : {IndexNames}, dotfiles : {"allow", "deny", "ignore"},
   headers : HeaderOptions, streaming : BOOLEAN, etag : {"true", "weak", "false"},
   compression : CompressionOptions, precompressed : BOOLEAN,
   cacheControl : CacheControlOptions]

\* the configurations explored: the defaults with at most one option changed
Options ==
  { o \in AllOptions :
      Cardinality({k \in OptionFields : o[k] # DefaultOptions[k]}) <= 1 }

\* the configuration the handler closes over
createFileServer(options) ==
  [root |-> options.root, index |-> options.index, dotfiles |-> options.dotfiles,
   headers |-> options.headers, streaming |-> options.streaming, etag |-> options.etag,
   supportedEncodings |->
     IF options.compression.isArray THEN options.compression.list
     ELSE IF options.compression.on THEN AllEncodings ELSE <<>>,
   precompressed |-> options.precompressed, cacheControl |-> options.cacheControl]

\* ------------------------------------------------------------------------
\* The filesystems explored
\* ------------------------------------------------------------------------
P_main == Root \o <<"/", "a", ".", "j", "s">>

P_gz == P_main \o <<".", "g", "z">>

P_br == P_main \o <<".", "b", "r">>

P_plain == Root \o <<"/", "b", ".", "j", "s">>

P_only == Root \o <<"/", "f", ".", "j", "s">>

P_onlygz == P_only \o <<".", "g", "z">>

P_c == Root \o <<"/", "c", ".", "j", "s">>

P_cgz == P_c \o <<".", "g", "z">>

P_dir == Root \o <<"/", "d">>

P_index == P_dir \o <<"/", "i", ".", "h", "t", "m">>

P_empty == Root \o <<"/", "e">>

P_gdir == Root \o <<"/", "g">>

P_gindex == P_gdir \o <<"/", "i", ".", "h", "t", "m">>

P_dot == Root \o <<"/", ".", "e">>

P_ddf == Root \o <<"/", ".", ".", "f">>

P_hidden == Root \o <<"/", ".", "h">>

P_hfile == P_hidden \o <<"/", "k">>

P_rootindex == Root \o <<"/", "i", ".", "h", "t", "m">>

P_locked == Root \o <<"/", "u">>

P_link == Root \o <<"/", "l">>

P_inlink == Root \o <<"/", "m">>

P_broken == Root \o <<"/", "x">>

P_dirlink == Root \o <<"/", "s">>

P_outside == <<"/", "o">>

P_secret == P_outside \o <<"/", "k">>

P_missing == <<"/", "n">>

\* file content: byte i of the file tagged t is 16 * t + i
Content(tag, n) == [i \in 1..n |-> 16 * tag + i]

\* modification times in milliseconds: before and after a write
MTimes == <<1500, 2700>>

T1 == MTimes[1]

T2 == MTimes[2]

\* the tree: the main file (n bytes, modified at t) with a gzip and a
\* brotli sibling, a file without siblings, a file with a gzip sibling only,
\* a file whose gzip sibling is a
\* symbolic link, a directory with an index file, a directory without one, a
\* directory whose index file is a symbolic link, a dotfile, a file in a dot
\* directory, a file whose name starts with two dots, a file that cannot
\* be opened, an index file of the root, symbolic links to a file outside the root, to
\* a file inside it, to nothing and to a directory outside the root, and a
\* directory outside the root that holds a secret file
MkFs(n, t) ==
  (Root :> DirNode) @@ (P_main :> FileNode(Content(1, n), t))
    @@ (P_gz :> FileNode(Content(2, 2), T2)) @@ (P_br :> FileNode(Content(3, 1), T2))
    @@ (P_plain :> FileNode(Content(7, 2), T1))
    @@ (P_only :> FileNode(Content(11, 2), T1)) @@ (P_onlygz :> FileNode(Content(12, 1), T2))
    @@ (P_c :> FileNode(Content(8, 1), T1)) @@ (P_cgz :> LinkNode(P_secret))
    @@ (P_dir :> DirNode) @@ (P_index :> FileNode(Content(4, 2), T1))
    @@ (P_empty :> DirNode)
    @@ (P_gdir :> DirNode) @@ (P_gindex :> LinkNode(P_secret))
    @@ (P_dot :> FileNode(Content(5, 1), T1)) @@ (P_ddf :> FileNode(Content(6, 1), T1))
    @@ (P_hidden :> DirNode) @@ (P_hfile :> FileNode(Content(10, 1), T1))
    @@ (P_locked :> UnreadableNode(Content(13, 1), T1))
    @@ (P_rootindex :> FileNode(Content(14, 1), T1))
    @@ (P_link :> LinkNode(P_secret)) @@ (P_inlink :> LinkNode(P_main))
    @@ (P_broken :> LinkNode(P_missing)) @@ (P_dirlink :> LinkNode(P_outside))
    @@ (P_outside :> DirNode) @@ (P_secret :> FileNode(Content(9, 2), T1))

\* ------------------------------------------------------------------------
\* The requests explored
\* ------------------------------------------------------------------------
Methods == {"GET", "HEAD", "POST"}

\* url.pathname values.  The URL parser has already removed "." and ".."
\* segments, so ".." only appears next to an encoded slash.
PN_main == <<"/", "a", ".", "j", "s">>

PN_only == <<"/", "f", ".", "j", "s">>

Pathnames ==
  { PN_main,
    <<"/">>,
    <<"/", "d">>,
    <<"/", "d", "/">>,
    <<"/", "d", "/", "i", ".", "h", "t", "m">>,
    <<"/", "/", "a", ".", "j", "s">>,
    <<"/", "a", ".", "j", "s", ".", "g", "z">>,
    <<"/", "b", ".", "j", "s">>,
    PN_only,
    <<"/", "c", ".", "j", "s">>,
    <<"/", "e">>,
    <<"/", "g">>,
    <<"/", "l">>,
    <<"/", "m">>,
    <<"/", "x">>,
    <<"/", "s", "/", "k">>,
    <<"/", ".", "e">>,
    <<"/", ".", "h", "/", "k">>,
    <<"/", ".", "q">>,
    <<"/", ".", ".", "f">>,
    <<"/", "n">>,
    <<"/", "u">>,
    <<"/", "%">>,
    <<"/", "d", "%2F", ".", ".", "%2F", "a", ".", "j", "s">>,
    <<"/", "d", "%2F", ".", ".", "%2F", ".", ".", "%2F", "o", "%2F", "k">>,
    <<"/", "d", "%2F", ".", ".", "%2F", ".", ".", "%2F", "w", "x">>,
    <<"/", "d", "%2F", ".", ".", "%2F", ".", ".", "%2F", "w", "%2F", "a", ".", "j", "s">>,
    <<"/", "%2E", "%2E", "%2F", "o", "%2F", "k">> }

Nums == 0..MaxNum

\* `bytes=<a>-<b>`, `bytes=<a>-`, `bytes=-<n>`
RangeAB(a, b) == <<"bytes=">> \o ToDigits(a) \o <<"-">> \o ToDigits(b)

RangeFrom(a) == <<"bytes=">> \o ToDigits(a) \o <<"-">>

RangeSuffix(n) == <<"bytes=">> \o <<"-">> \o ToDigits(n)

SingleRanges ==
  {RangeAB(a, b) : a \in Nums, b \in Nums} \cup {RangeFrom(a) : a \in Nums}
    \cup {RangeSuffix(n) : n \in Nums}

MultiRanges ==
  { RangeAB(0, 1) \o <<",">> \o ToDigits(2) \o <<"-">> \o ToDigits(2),
    RangeAB(0, 0) \o <<",", " ">> \o ToDigits(1) \o <<"-">>,
    RangeAB(MaxNum, MaxNum) \o <<",">> \o ToDigits(0) \o <<"-">> \o ToDigits(0) }

MalformedRanges ==
  { <<>>,
    <<"bytes=">>,
    <<"bytes=", "-">>,
    <<"bytes=", "x", "-", "1">>,
    <<"bytes=", "1", "-", "x">>,
    <<"bytes=", "-", "1", "-", "2">>,
    <<"bytes=", "1", "-", "-", "1">>,
    <<"bytes=", " ", "0", " ", "-", " ", "1">>,
    <<"x">> }

RangeHeaders == SingleRanges \cup MultiRanges \cup MalformedRanges

\* the ranges combined with other request headers
CoreRanges ==
  {RangeAB(0, 0), RangeFrom(1), RangeSuffix(1), RangeFrom(MaxNum), RangeAB(1, MaxNum)}

IfNoneMatchHeaders ==
  { <<"*">>, <<"\"", "z", "\"">>, <<"\"", "z", "\"", ",", " ", "*">>, <<>> }

IfModifiedSinceHeaders == { <<"date:", "1">>, <<"date:", "2">>, <<"y">> }

AcceptEncodingHeaders ==
  { <<"gzip">>,
    <<"br">>,
    <<"br", ",", " ", "gzip">>,
    <<"gzip", ";", "q=", "0", ".", "5", ",", " ", "br">>,
    <<"gzip", ";", "q=", "0", ",", " ", "br">>,
    <<"br", ";", "q=", "0", ".", "5", ",", " ", "gzip", ";", "q=", "0", ".", "5">>,
    <<"gzip", ";", "q=", "x", ",", " ", "br", ";", "q=", "0", ".", "5">>,
    <<"identity">> }

H(name, values) == {(name :> v) : v \in values}

\* header sets: one header with all its values, or two headers where the
\* range is one of the core ranges
HeaderSets ==
  {NoHeaders} \cup H("range", RangeHeaders) \cup H("if-none-match", IfNoneMatchHeaders)
    \cup H("if-modified-since", IfModifiedSinceHeaders)
    \cup H("accept-encoding", AcceptEncodingHeaders)
    \cup { a @@ b : a \in H("range", CoreRanges),
                    b \in H("if-none-match", IfNoneMatchHeaders)
                            \cup H("if-modified-since", IfModifiedSinceHeaders)
                            \cup H("accept-encoding", AcceptEncodingHeaders) }
    \cup { a @@ b : a \in H("if-none-match", IfNoneMatchHeaders),
                    b \in H("if-modified-since", IfModifiedSinceHeaders) }
    \cup { a @@ b : a \in H("accept-encoding", {<<"gzip">>, <<"br">>}),
                    b \in H("if-none-match", {<<"*">>})
                            \cup H("if-modified-since", IfModifiedSinceHeaders) }

\* GET requests with headers go to the main file; every path is requested
\* with GET without headers, with a range and with Accept-Encoding, and with
\* the other methods without headers; the file with a gzip sibling only is
\* requested with every Accept-Encoding
Requests ==
  { [method |-> "GET", pathname |-> PN_main, headers |-> h] : h \in HeaderSets }
    \cup { [method |-> "GET", pathname |-> p, headers |-> h] :
             p \in Pathnames,
             h \in {NoHeaders, ("range" :> RangeAB(0, 0)),
                    ("accept-encoding" :> <<"gzip">>)} }
    \cup { [method |-> "GET", pathname |-> PN_only, headers |-> h] :
             h \in H("accept-encoding", AcceptEncodingHeaders) }
    \cup { [method |-> m, pathname |-> p, headers |-> NoHeaders] :
             m \in Methods, p \in Pathnames }

\* ------------------------------------------------------------------------
\* State machine: a server created once, a filesystem whose main file has
\* MaxSize bytes until it is rewritten, and a client that sends requests and
\* revalidates
\* ------------------------------------------------------------------------
VARIABLES fs, cfg, phase, request, response, reval, stream

vars == <<fs, cfg, phase, request, response, reval, stream>>

NoRequest == [method |-> "", pathname |-> <<>>, headers |-> NoHeaders]

NoResponse == Response(0, NoHeaders, NullBody, {}, {})

NoReval == [active |-> FALSE, etag |-> Null, first |-> NoResponse]

\* no body under way.  status is the status of the response returned for
\* the body, failed records an I/O failure, body is the buffered body: bytes
\* of the file from start on, followed by zeros
NoStream ==
  [fileHandle |-> "none", pc |-> "none", state |-> "none",
   streaming |-> TRUE, status |-> 0, isRangeRequest |-> FALSE, failed |-> FALSE,
   body |-> [start |-> 0, bytes |-> 0, zeros |-> 0],
   startPos |-> 0, totalToRead |-> 0, length |-> 0,
   position |-> 0, bytesRemaining |-> 0, reads |-> 0, chunks |-> <<>>,
   queued |-> 0, closeRequested |-> FALSE,
   requested |-> 0, pending |-> FALSE, delivered |-> 0,
   cancelled |-> FALSE, closeCalls |-> 0]

Init ==
  /\ fs = MkFs(MaxSize, T1)
  /\ cfg \in {createFileServer(o) : o \in Options}
  /\ phase = "idle"
  /\ request = NoRequest
  /\ response = NoResponse
  /\ reval = NoReval
  /\ stream = NoStream

\* one call of the handler
HandleRequest ==
  /\ phase = "idle"
  /\ \E r \in Requests :
       /\ request' = r
       /\ response' = handler(fs, cfg, r)
  /\ phase' = "responded"
  /\ reval' = NoReval
  /\ UNCHANGED <<fs, cfg, stream>>

\* the client repeats the request it was just answered with the returned
\* ETag as If-None-Match; the filesystem has not changed in between
Revalidate ==
  /\ phase = "responded"
  /\ ~reval.active
  /\ response.status \in {200, 206}
  /\ "ETag" \in DOMAIN response.headers
  /\ LET r == [request EXCEPT !.headers =
                 ("if-none-match" :> response.headers["ETag"]) @@ request.headers]
     IN  /\ request' = r
         /\ response' = handler(fs, cfg, r)
  /\ reval' = [active |-> TRUE, etag |-> response.headers["ETag"], first |-> response]
  /\ UNCHANGED <<fs, cfg, phase, stream>>

\* the client is done with the response
Deliver ==
  /\ phase = "responded"
  /\ phase' = "idle"
  /\ request' = NoRequest
  /\ response' = NoResponse
  /\ reval' = NoReval
  /\ UNCHANGED <<fs, cfg, stream>>

\* the main file is rewritten: new content, later modification time
WriteMain ==
  /\ phase = "idle"
  /\ fs[P_main].mtime = T1
  /\ \E n \in 0..MaxSize :
       fs' = [fs EXCEPT ![P_main] = FileNode(Content(1, n), T2)]
  /\ UNCHANGED <<cfg, phase, request, response, reval, stream>>

Next == HandleRequest \/ Revalidate \/ Deliver \/ WriteMain

Spec == Init /\ [][Next]_vars

\* ------------------------------------------------------------------------
\* The streaming body: the ReadableStream the handler builds around the open
\* file handle, its start() loop, and the consumer of the response.  Files
\* are described by their length, chunks by their position and length.
\* ------------------------------------------------------------------------
\* the number of whole chunks in the largest file streamed
MaxChunks == 2

\* the high-water mark of a ReadableStream built without a queuing strategy
HighWaterMark == 1

\* sizes in the file metadata
FileSizes == {0, 1, chunkSize + 1, MaxChunks * chunkSize + 1}

\* Range headers of the streamed requests; Null: no Range header
StreamRanges == {Null, RangeAB(0, 0), RangeFrom(chunkSize), RangeSuffix(1)}

\* controller.enqueue and controller.close throw unless this holds
CanCloseOrEnqueue(s) == s.state = "readable" /\ ~s.closeRequested

\* controller.enqueue(chunk): the chunk goes to a waiting read request, or
\* else into the queue of the stream
controller_enqueue(s, chunk) ==
  IF s.pending
  THEN [s EXCEPT !.chunks = Append(@, chunk), !.pending = FALSE, !.delivered = @ + 1]
  ELSE [s EXCEPT !.chunks = Append(@, chunk), !.queued = @ + 1]

\* controller.close(): the stream closes once its queue is empty
controller_close(s) ==
  IF s.queued = 0 THEN [s EXCEPT !.state = "closed", !.pending = FALSE]
  ELSE [s EXCEPT !.closeRequested = TRUE]

\* controller.error(e): nothing happens unless the stream is readable
controller_error(s) ==
  IF s.state # "readable" THEN s
  ELSE [s EXCEPT !.state = "errored", !.queued = 0, !.pending = FALSE]

\* variant: close() that leaves the handle open
fileHandle_close_noop(s) == [s EXCEPT !.closeCalls = @ + 1]

\* fileHandle.close()
fileHandle_close(s) == [s EXCEPT !.fileHandle = "closed", !.closeCalls = @ + 1]

\* finally { await fileHandle.close() }
Finally(s) == [fileHandle_close(s) EXCEPT !.pc = "done"]

\* catch (error) { controller.error(error) } finally { ... }
Catch(s) == Finally(controller_error(s))

\* controller.close() at the end of the try block
CloseStream(s) ==
  IF CanCloseOrEnqueue(s) THEN Finally(controller_close(s)) ELSE Catch(s)

\* the loop test and, while bytes remain, the next fileHandle.read
LoopHead(s) ==
  IF s.bytesRemaining > 0 THEN [s EXCEPT !.pc = "reading", !.reads = @ + 1]
  ELSE CloseStream(s)

\* variant: every read asks for a whole chunk
BytesRead_whole(s) ==
  MathMin(chunkSize, IF s.length > s.position THEN s.length - s.position ELSE 0)

\* what fileHandle.read(buffer, 0, bytesToRead, position) reads
BytesRead(s) ==
  MathMin(MathMin(chunkSize, s.bytesRemaining),
          IF s.length > s.position THEN s.length - s.position ELSE 0)

\* the loop body after the read returned bytesRead
AfterRead(s, bytesRead) ==
  IF bytesRead = 0 THEN CloseStream(s)
  ELSE IF ~CanCloseOrEnqueue(s) THEN Catch(s)
  ELSE LoopHead([controller_enqueue(s, [position |-> s.position, length |-> bytesRead])
                   EXCEPT !.position = @ + bytesRead,
                          !.bytesRemaining = @ - bytesRead])

\* open, the read boundaries, and new ReadableStream: start() runs up to
\* its first await
NewStream(startPos, totalToRead, length) ==
  LoopHead([NoStream EXCEPT !.fileHandle = "open", !.state = "readable",
                            !.startPos = startPos, !.totalToRead = totalToRead,
                            !.length = length, !.position = startPos,
                            !.bytesRemaining = totalToRead])

\* catch { return new Response("Internal Server Error", { status: 500 }) }
InternalServerError(s) ==
  [s EXCEPT !.pc = "done", !.status = 500, !.failed = TRUE]

\* the streaming branch for a file of the given size in its metadata whose
\* length when it is read is that size or, after a truncation, half of it;
\* open may fail
OpenStream ==
  /\ stream.pc = "none"
  /\ \E size \in FileSizes, rangeHeader \in StreamRanges, opened \in BOOLEAN :
       LET Ranged(rangeRequest) ==
             /\ Falsy(rangeHeader) \/ rangeRequest.ok
             /\ \E length \in {size, size \div 2} :
                  stream' =
                    IF ~opened THEN InternalServerError(NoStream)
                    ELSE IF rangeRequest.ok
                    THEN [NewStream(rangeRequest.start,
                                    rangeRequest.end - rangeRequest.start + 1, length)
                            EXCEPT !.status = 206, !.isRangeRequest = TRUE]
                    ELSE [NewStream(0, (size - 1) - 0 + 1, length) EXCEPT !.status = 200]
       IN  Ranged(IF Falsy(rangeHeader) THEN NoRange
                  ELSE index_parseRange(rangeHeader, size))
  /\ UNCHANGED <<fs, cfg, phase, request, response, reval>>

\* the promise of fileHandle.read settles: with the bytes read, or rejected
ReadSettles ==
  /\ stream.pc = "reading"
  /\ \E rejected \in BOOLEAN :
       stream' = IF rejected THEN Catch([stream EXCEPT !.failed = TRUE])
                 ELSE AfterRead(stream, BytesRead(stream))
  /\ UNCHANGED <<fs, cfg, phase, request, response, reval>>

\* the body of the buffered branch: for a range, a zero-filled buffer of
\* contentLength bytes that fileHandle.read fills from the file as far as
\* the file goes; else what readFile returns, the whole file as it is now
BufferedBody(isRangeRequest, start, contentLength, length) ==
  IF isRangeRequest
  THEN [start |-> start,
        bytes |-> MathMin(contentLength, IF length > start THEN length - start ELSE 0),
        zeros |-> contentLength
                    - MathMin(contentLength, IF length > start THEN length - start ELSE 0)]
  ELSE [start |-> 0, bytes |-> length, zeros |-> 0]

\* the buffered branch: for a range open, read, close; else readFile.  open,
\* read and readFile may fail; the close after a failed read is not reached
BufferedResponse ==
  /\ stream.pc = "none"
  /\ \E size \in FileSizes, rangeHeader \in StreamRanges,
        opened \in BOOLEAN, rejected \in BOOLEAN :
       LET Ranged(rangeRequest) ==
             /\ Falsy(rangeHeader) \/ rangeRequest.ok
             /\ \E length \in {size, size \div 2} :
                  stream' =
                    IF rangeRequest.ok
                    THEN IF ~opened
                         THEN InternalServerError([NoStream EXCEPT !.streaming = FALSE])
                         ELSE IF rejected
                         THEN InternalServerError(
                                [NoStream EXCEPT !.streaming = FALSE, !.fileHandle = "open",
                                                 !.isRangeRequest = TRUE])
                         ELSE [fileHandle_close([NoStream EXCEPT !.fileHandle = "open"])
                                 EXCEPT !.streaming = FALSE, !.pc = "done", !.status = 206,
                                        !.isRangeRequest = TRUE, !.length = length,
                                        !.body = BufferedBody(TRUE, rangeRequest.start,
                                                              rangeRequest.contentLength,
                                                              length)]
                    ELSE IF ~opened \/ rejected
                    THEN InternalServerError([NoStream EXCEPT !.streaming = FALSE])
                    ELSE [NoStream EXCEPT !.streaming = FALSE, !.pc = "done",
                                          !.status = 200, !.length = length,
                                          !.body = BufferedBody(FALSE, 0, size, length)]
       IN  Ranged(IF Falsy(rangeHeader) THEN NoRange
                  ELSE index_parseRange(rangeHeader, size))
  /\ UNCHANGED <<fs, cfg, phase, request, response, reval>>

\* the consumer asks for the next chunk: reader.read()
ConsumerRead ==
  /\ stream.state = "readable" /\ ~stream.pending
  /\ stream.requested < MaxChunks + 2
  /\ stream' =
       IF stream.queued > 0
       THEN [stream EXCEPT !.requested = @ + 1, !.queued = @ - 1, !.delivered = @ + 1,
                           !.state = IF stream.closeRequested /\ stream.queued = 1
                                     THEN "closed" ELSE @]
       ELSE [stream EXCEPT !.requested = @ + 1, !.pending = TRUE]
  /\ UNCHANGED <<fs, cfg, phase, request, response, reval>>

\* the consumer cancels: the queue is dropped and cancel() closes the handle
ConsumerCancel ==
  /\ stream.state = "readable"
  /\ stream' = fileHandle_close([stream EXCEPT !.state = "closed", !.queued = 0,
                                               !.pending = FALSE, !.cancelled = TRUE])
  /\ UNCHANGED <<fs, cfg, phase, request, response, reval>>

StreamInit ==
  /\ fs = MkFs(MaxSize, T1)
  /\ cfg = createFileServer(DefaultOptions)
  /\ phase = "idle"
  /\ request = NoRequest
  /\ response = NoResponse
  /\ reval = NoReval
  /\ stream = NoStream

StreamNext ==
  OpenStream \/ ReadSettles \/ ConsumerRead \/ ConsumerCancel \/ BufferedResponse

StreamSpec == StreamInit /\ [][StreamNext]_vars

\* every read that was issued settles
FairStreamSpec == StreamSpec /\ WF_vars(ReadSettles)

\* ------------------------------------------------------------------------
\* Properties
\* ------------------------------------------------------------------------
Responded == phase = "responded"

\* the file the request names, and the representation selected for it
Target == Locate(fs, cfg, request)

Served == Negotiate(fs, cfg, request, Target.filePath, Target.stats)

ServedSize == Served.fileStats.size

ServedData == open(fs, Served.finalFilePath).data

RangeOf == Get(request.headers, "range")

\* a GET request for which a file to serve exists and can be opened
GetOfFile ==
  /\ Responded /\ request.method = "GET" /\ Target.status = 0
  /\ open(fs, Served.finalFilePath).ok

\* a GET request that carries a Range header
GetWithRange ==
  Responded /\ request.method = "GET" /\ "range" \in DOMAIN request.headers

NoConditional ==
  /\ "if-none-match" \notin DOMAIN request.headers
  /\ "if-modified-since" \notin DOMAIN request.headers

\* the configured static headers leave the named headers alone
StaticLeaves(names) == \A n \in names : n \notin DOMAIN cfg.headers

\* p is the root or lies below it
InsideRoot(p) ==
  \/ p = Root
  \/ Len(p) > Len(Root) + 1 /\ SubSeq(p, 1, Len(Root) + 1) = Root \o <<"/">>

\* the pathname does not decode, or joined to the root it names a location
\* that is not the root and not below it
ResolvesOutside(pathname) ==
  LET decoded == decodeURIComponent(pathname)
  IN  \/ ~decoded.ok
      \/ ~InsideRoot(resolve(Root, StripLeadingSlashes(decoded.value)))

\* `bytes a-b/size`
Span(a, b, size) ==
  <<"bytes", " ">> \o ToDigits(a) \o <<"-">> \o ToDigits(b) \o <<"/">> \o ToDigits(size)

\* `bytes */size`
Unsatisfied(size) == <<"bytes", " ", "*", "/">> \o ToDigits(size)

\* C1: no request makes the handler read the metadata or the content of a
\* location outside the root, symbolic links included: every location the
\* handler stats or opens, after links are followed, is the root or below it.
C1_NoEscape ==
  Responded => \A p \in response.statted \cup response.opened : InsideRoot(p)

\* C2: for a pathname that resolves outside the root or does not decode,
\* resolveFilePath returns isValid = false with an empty filePath, and the
\* handler touches no file and answers none of 200, 206, 304, 404; a request
\* that passes the method check is answered 403.
C2_Traversal ==
  Responded /\ ResolvesOutside(request.pathname) =>
    /\ resolveFilePath(request.pathname, cfg.root) = [filePath |-> <<>>, isValid |-> FALSE]
    /\ response.statted = {} /\ response.opened = {}
    /\ response.status \notin {200, 206, 304, 404}
    /\ request.method = "GET" => response.status = 403

\* an encoded traversal to an existing file outside the root was answered 403
C2_Witness ==
  /\ Responded /\ request.method = "GET"
  /\ request.pathname = <<"/", "%2E", "%2E", "%2F", "o", "%2F", "k">>
  /\ P_secret \in DOMAIN fs
  /\ response.status = 403 /\ response.statted = {}

\* C3: GET and HEAD are the only methods served; any other method is
\* answered 405 with `Allow: GET, HEAD` and without filesystem access.
C3_Methods ==
  Responded =>
    /\ request.method \in {"GET", "HEAD"} => response.status # 405
    /\ request.method \notin {"GET", "HEAD"} =>
         /\ response.status = 405
         /\ Get(response.headers, "Allow") = <<"G", "E", "T", ",", " ", "H", "E", "A", "D">>
         /\ response.statted = {} /\ response.opened = {}

\* C4: a HEAD request is answered with the status and the headers of the
\* same request sent as GET, and with a null body, whatever the strategy.
C4_Head ==
  Responded /\ request.method = "HEAD" =>
    LET get == handler(fs, cfg, [request EXCEPT !.method = "GET"])
    IN  /\ response.status = get.status
        /\ response.headers = get.headers
        /\ response.body = NullBody

C6_Clamp ==
  GetWithRange /\ NoConditional /\ StaticLeaves({"Content-Range"}) =>
    \A a, b \in Nums :
      /\ RangeOf \in {RangeAB(a, b), RangeFrom(a), RangeSuffix(b)}
      /\ GetOfFile /\ ServedSize > 0
      /\ \/ RangeOf = RangeAB(a, b) /\ a < ServedSize /\ b >= ServedSize
         \/ RangeOf = RangeFrom(a) /\ a < ServedSize
         \/ RangeOf = RangeSuffix(b) /\ b > ServedSize /\ a = 0
      => /\ response.status = 206
         /\ Get(response.headers, "Content-Range") = Span(a, ServedSize - 1, ServedSize)

\* C7: a GET with a single range whose start is at or past the size of an
\* existing resource is answered 416 with `Content-Range: bytes */size` and,
\* when ETag generation is on, the ETag; the static headers set neither.
C7_Unsatisfiable ==
  GetWithRange /\ StaticLeaves({"Content-Range", "ETag"}) =>
    \A a, b \in Nums :
      /\ RangeOf \in {RangeAB(a, b), RangeFrom(a)}
      /\ GetOfFile /\ a >= ServedSize
      => /\ response.status = 416
         /\ Get(response.headers, "Content-Range") = Unsatisfied(ServedSize)
         /\ cfg.etag # "false" =>
              Get(response.headers, "ETag")
                = generateETag(Served.fileStats, Target.filePath, cfg.etag = "weak")

\* a range starting past the end of a three-byte file was answered 416
C7_Witness ==
  /\ GetOfFile /\ RangeOf = RangeFrom(MaxNum) /\ ServedSize = 3
  /\ response.status = 416
  /\ "ETag" \in DOMAIN response.headers

\* C8: a Range header with more than one range is never served as a range:
\* the answer is 416 with `Content-Range: bytes */size`.
C8_MultiRange ==
  /\ GetWithRange /\ RangeOf \in MultiRanges /\ StaticLeaves({"Content-Range"})
  /\ GetOfFile
  => /\ response.status = 416
     /\ Get(response.headers, "Content-Range") = Unsatisfied(ServedSize)

\* 0 <= start <= end < size and contentLength = end - start + 1 > 0
RangeSpecOK(rs, size) ==
  rs.ok =>
    /\ 0 <= rs.start /\ rs.start <= rs.end /\ rs.end < size
    /\ rs.contentLength = rs.end - rs.start + 1
    /\ rs.contentLength > 0

\* every RangeSpec both range parsers return for the Range header of the
\* request, whatever the file size
C9_RangeSpecs ==
  Responded /\ "range" \in DOMAIN request.headers =>
    \A size \in 0..MaxSize :
      /\ RangeSpecOK(index_parseRange(RangeOf, size), size)
      /\ RangeSpecOK(httputils_parseRange(RangeOf, size), size)

C10_RoundTrip ==
  Responded /\ reval.active /\ StaticLeaves({"ETag"}) =>
    /\ response.status = 304
    /\ response.body = NullBody
    /\ Get(response.headers, "ETag") = reval.etag
    /\ "Last-Modified" \in DOMAIN response.headers

\* a weak ETag returned for a rewritten file was sent back and answered 304
C10_Witness ==
  /\ Responded /\ reval.active /\ cfg.etag = "weak"
  /\ fs[P_main].mtime = T2
  /\ reval.first.status = 200
  /\ response.status = 304 /\ response.headers["ETag"] = reval.etag

\* the request without the named header
WithoutHeader(r, name) ==
  [r EXCEPT !.headers = [n \in DOMAIN r.headers \ {name} |-> r.headers[n]]]

BothConditionals ==
  /\ "if-none-match" \in DOMAIN request.headers
  /\ "if-modified-since" \in DOMAIN request.headers

\* C11: for a request that carries an If-None-Match header, whatever its
\* value and whether or not ETags are generated, the If-Modified-Since header
\* has no influence: the response is the one the same request gets without
\* If-Modified-Since.
C11_Authoritative ==
  Responded /\ request.method = "GET" /\ BothConditionals =>
    response = handler(fs, cfg, WithoutHeader(request, "if-modified-since"))

\* the Range header of the request is one the range stage answers 416
RangeUnsatisfied ==
  ~Falsy(RangeOf) /\ ~index_parseRange(RangeOf, ServedSize).ok

IfModifiedSinceOnly ==
  /\ "if-modified-since" \in DOMAIN request.headers
  /\ "if-none-match" \notin DOMAIN request.headers

\* C12: a GET for an existing file without If-None-Match and with
\* If-Modified-Since, not ended by the range stage, is answered 304 exactly
\* when the header parses as a date D and the modification time of the
\* representation (the one sent as Last-Modified), truncated to whole
\* seconds, is <= D; with an unparsable date the answer is the full or
\* partial response, never 304 and never an error.
C12_ModifiedSince ==
  Responded /\ request.method = "GET" /\ IfModifiedSinceOnly =>
    LET D == DateParse(request.headers["if-modified-since"])
    IN  GetOfFile /\ ~RangeUnsatisfied =>
          /\ response.status = 304
                <=> ~IsNaN(D) /\ (Served.fileStats.mtime \div 1000) * 1000 <= D
          /\ IsNaN(D) => response.status \in {200, 206}

\* a file modified half a second after the date sent was not modified
\* within that second: 304
C12_Witness ==
  /\ GetOfFile /\ IfModifiedSinceOnly
  /\ Served.fileStats.mtime = 1500
  /\ DateParse(request.headers["if-modified-since"]) = 1000
  /\ response.status = 304 /\ response.body = NullBody

\* the ETag of the representation at the time of the request
CurrentETag == generateETag(Served.fileStats, Target.filePath, cfg.etag = "weak")

\* the If-None-Match list holds `*` or the current ETag
MatchingIfNoneMatch ==
  /\ "if-none-match" \in DOMAIN request.headers
  /\ cfg.etag # "false"
  /\ LET tags == Split(request.headers["if-none-match"], ",")
     IN  \E i \in 1..Len(tags) : Trim(tags[i]) \in {<<"*">>, CurrentETag}

\* If-Modified-Since alone, with a date at or after the modification time
MatchingIfModifiedSince ==
  /\ IfModifiedSinceOnly
  /\ LET D == DateParse(request.headers["if-modified-since"])
     IN  ~IsNaN(D) /\ (Served.fileStats.mtime \div 1000) * 1000 <= D

\* C13: with a matching conditional header, a range that starts at or past
\* the end of the file is answered 416, not 304; and a satisfiable range
\* (`a-b` with a <= b and a < size, `a-` with a < size, `-n` with n > 0 on a
\* non-empty file) is answered 304 with a null body and no file opened.
C13_Precedence ==
  GetWithRange /\ ~NoConditional =>
    \A a, b \in Nums :
      /\ RangeOf \in {RangeAB(a, b), RangeFrom(a), RangeSuffix(b)}
      /\ GetOfFile
      /\ MatchingIfNoneMatch \/ MatchingIfModifiedSince
      => /\ RangeOf \in {RangeAB(a, b), RangeFrom(a)} /\ a >= ServedSize
              => response.status = 416
         /\ \/ RangeOf = RangeAB(a, b) /\ a <= b /\ a < ServedSize
            \/ RangeOf = RangeFrom(a) /\ a < ServedSize
            \/ RangeOf = RangeSuffix(b) /\ b > 0 /\ ServedSize > 0
            => /\ response.status = 304
               /\ response.body = NullBody
               /\ response.opened = {}

\* the location below the root that the pathname names
Named(pathname) ==
  resolve(Root, StripLeadingSlashes(decodeURIComponent(pathname).value))

\* a segment of the path below the root starts with a dot
HasDotSegment(pathname) ==
  LET segs == Split(SubSeq(Named(pathname), Len(Root) + 2, Len(Named(pathname))), "/")
  IN  \E i \in 1..Len(segs) : StartsWith(segs[i], <<".">>)

OtherPolicy == IF cfg.dotfiles = "deny" THEN "ignore" ELSE "deny"

\* C14: a GET whose path below the root has a segment starting with a dot,
\* a dot directory above a normally named file included, is answered 404
\* under the policies deny and ignore, with the same response under both,
\* whether or not the file exists; under allow the request is processed: an
\* existing file requested without headers is answered 200.
C14_Dotfiles ==
  /\ Responded /\ request.method = "GET"
  /\ ~ResolvesOutside(request.pathname) /\ HasDotSegment(request.pathname)
  => /\ cfg.dotfiles \in {"deny", "ignore"} =>
          /\ response.status = 404
          /\ response = handler(fs, [cfg EXCEPT !.dotfiles = OtherPolicy], request)
     /\ /\ cfg.dotfiles = "allow" /\ request.headers = NoHeaders
        /\ stat(fs, Named(request.pathname)).isFile
        => response.status = 200

\* C15: a GET whose path names a symbolic link, with or without an existing
\* target, is answered 404.
C15_Symlink ==
  /\ Responded /\ request.method = "GET"
  /\ ~ResolvesOutside(request.pathname)
  /\ Lookup(fs, Named(request.pathname)).kind = "link"
  => response.status = 404

AcceptEncodingOf == Get(request.headers, "accept-encoding")

\* the weight of one Accept-Encoding token in thousandths: the number after
\* `;q=`, 1.0 when it is missing or not a number
Weight(token) ==
  LET parts == Split(Trim(token), ";")
      q == IF Len(parts) >= 2 THEN parseFloat(ReplaceQEq(parts[2])) ELSE 1000
  IN  [encoding |-> Trim(parts[1]), quality |-> IF IsNaN(q) THEN 1000 ELSE q]

\* the tokens of weight > 0 by descending weight, ties in header order
PreferenceOrder(header) ==
  LET tokens == Split(header, ",")
  IN  SortByQuality(<<>>, SelectSeq([i \in 1..Len(tokens) |-> Weight(tokens[i])],
                                    LAMBDA e : e.quality > 0))

\* the first supported encoding of the preference order, Null when none
FirstSupported(order, supported) ==
  LET hits == SelectSeq(order, LAMBDA e : InSeq(e.encoding, supported))
  IN  IF Len(hits) = 0 THEN Null ELSE hits[1].encoding

\* C16: parseAcceptEncoding returns the first server-supported token of the
\* preference order: tokens of weight <= 0 excluded, the others by descending
\* weight with ties in header order, a missing or malformed q counting 1.0.
C16_Preference ==
  Responded /\ "accept-encoding" \in DOMAIN request.headers =>
    parseAcceptEncoding(AcceptEncodingOf, cfg.supportedEncodings)
      = FirstSupported(PreferenceOrder(AcceptEncodingOf), cfg.supportedEncodings)

\* the sibling file that holds the encoding of a path
SiblingOf(path, encoding) ==
  path \o (IF encoding = <<"br">> THEN <<".", "b", "r">> ELSE <<".", "g", "z">>)

\* the supported encodings of the client's preference order whose sibling
\* exists, in that order
Available(path) ==
  SelectSeq(PreferenceOrder(AcceptEncodingOf),
            LAMBDA e : /\ InSeq(e.encoding, cfg.supportedEncodings)
                       /\ stat(fs, SiblingOf(path, e.encoding)).ok)

\* no Accept-Encoding header, compression or pre-compressed lookup disabled,
\* or no acceptable encoding with a sibling
Unencoded(path) ==
  \/ Falsy(AcceptEncodingOf)
  \/ Len(cfg.supportedEncodings) = 0 \/ ~cfg.precompressed
  \/ Len(Available(path)) = 0

\* C17: a full response carries the sibling of the first encoding, in the
\* client's weighted order restricted to the supported encodings, whose
\* sibling file exists, with that Content-Encoding; it carries the original
\* file without Content-Encoding exactly when there is no Accept-Encoding
\* header, negotiation is disabled or no acceptable encoding has a sibling.
C17_FallThrough ==
  Responded /\ "accept-encoding" \in DOMAIN request.headers /\ response.status = 200 =>
    LET path == Target.filePath
    IN  IF Unencoded(path)
        THEN /\ "Content-Encoding" \notin DOMAIN response.headers
             /\ response.body.bytes = open(fs, path).data
        ELSE /\ Get(response.headers, "Content-Encoding") = Available(path)[1].encoding
             /\ response.body.bytes
                  = open(fs, SiblingOf(path, Available(path)[1].encoding)).data

\* the response to the same request without Accept-Encoding
Unnegotiated == handler(fs, cfg, WithoutHeader(request, "accept-encoding"))

\* C18: the ETag, the 304 decision and the range validation do not depend on
\* Accept-Encoding: a GET with an Accept-Encoding header gets the ETag of
\* the same request without it, and is answered 304 or 416 exactly when that
\* request is.
C18_OriginalMetadata ==
  Responded /\ request.method = "GET" /\ "accept-encoding" \in DOMAIN request.headers =>
    /\ Get(response.headers, "ETag") = Get(Unnegotiated.headers, "ETag")
    /\ response.status = 304 <=> Unnegotiated.status = 304
    /\ response.status = 416 <=> Unnegotiated.status = 416

\* C19: in streaming mode the file handle opened for a body is closed in
\* every execution: after the last chunk, after a read error, and after the
\* consumer cancels.
C19_HandleClosed ==
  stream.streaming /\ stream.fileHandle = "open" ~> stream.fileHandle = "closed"

\* the consumer cancelled after the first of several chunks and the loop
\* ended with the handle closed
C19_Witness ==
  /\ stream.cancelled /\ stream.delivered = 1 /\ stream.bytesRemaining > 0
  /\ stream.pc = "done" /\ stream.fileHandle = "closed"

\* C20: the number of chunks read from the file never exceeds the number of
\* chunks the consumer has asked for plus a fixed bound (the high-water mark
\* of the stream).
C20_DemandDriven == stream.reads <= stream.requested + HighWaterMark

\* the number of bytes in a sequence of chunks
RECURSIVE TotalLength(_)
TotalLength(chunks) ==
  IF Len(chunks) = 0 THEN 0 ELSE chunks[1].length + TotalLength(Tail(chunks))

\* the loop ended without a rejected read and without a cancellation
StreamComplete ==
  /\ stream.streaming /\ stream.pc = "done" /\ stream.status \in {200, 206}
  /\ ~stream.failed /\ ~stream.cancelled

\* C21: for every file and range, the bytes the streaming body delivers are
\* the bytes the buffered body holds, also when the file is shorter than
\* the size in the metadata the range was computed from.
C21_SameBytes ==
  StreamComplete =>
    [start |-> stream.startPos, bytes |-> TotalLength(stream.chunks), zeros |-> 0]
      = BufferedBody(stream.isRangeRequest, stream.startPos, stream.totalToRead,
                     stream.length)

\* C22: every I/O failure while a response is produced (open, read or
\* readFile failing, a read failing while the body is streamed) gives a 500
\* response; none is reported under 200 or 206.
C22_Failures == stream.failed => stream.status = 500

\* C23: when the handling of a request is finished, in either body
\* strategy and on every path, a failed read after a successful open
\* included, no file handle opened for it is still open.
C23_Released == stream.pc = "done" => stream.fileHandle # "open"

\* C24: every call of the handler is answered (the promise never rejects),
\* and the status of the answer is one of 200, 206, 304, 403, 404, 405,
\* 416 and 500.
C24_Statuses ==
  Responded => response.status \in {200, 206, 304, 403, 404, 405, 416, 500}

\* a file that stat finds and open refuses is answered 500
C24_Witness ==
  /\ Responded /\ request.method = "GET" /\ Target.status = 0
  /\ ~open(fs, Served.finalFilePath).ok
  /\ response.status = 500

\* the answer of the same server configured without static headers
WithoutStatic == handler(fs, [cfg EXCEPT !.headers = NoHeaders], request)

\* C25: the static headers are merged last and win over the computed
\* Content-Type and Cache-Control, but Content-Length of a 200 or 206 and
\* Content-Range of a 206 or 416 are the computed ones whatever the static
\* headers say.
C25_StaticHeaders ==
  Responded /\ response.status \in {200, 206, 416} =>
    /\ response.status \in {200, 206} =>
          /\ \A n \in {"Content-Type", "Cache-Control"} \cap DOMAIN cfg.headers :
                Get(response.headers, n) = cfg.headers[n]
          /\ Get(response.headers, "Content-Length")
               = Get(WithoutStatic.headers, "Content-Length")
    /\ response.status \in {206, 416} =>
          Get(response.headers, "Content-Range")
            = Get(WithoutStatic.headers, "Content-Range")

\* range headers with a negative field, a field that is not a number, no
\* field at all, or a suffix of length 0
InvalidFields ==
  { <<"bytes=", "-", "1", "-", "2">>,
    <<"bytes=", "1", "-", "-", "1">>,
    <<"bytes=", "x", "-", "1">>,
    <<"bytes=", "1", "-", "x">>,
    <<"bytes=", "-">>,
    RangeSuffix(0) }

\* C26: a Range header with a negative or non-numeric field, or with a
\* suffix of length 0, is never read as a valid range: both range parsers
\* return null for it and the handler answers 416.
C26_InvalidFields ==
  GetOfFile /\ RangeOf \in InvalidFields =>
    /\ ~index_parseRange(RangeOf, ServedSize).ok
    /\ ~httputils_parseRange(RangeOf, ServedSize).ok
    /\ response.status = 416

\* the chunks emitted so far: read from contiguous positions from the start
\* of the range on, none empty and none longer than chunkSize, together
\* never more than the bytes to send; a loop that ended by itself has
\* emitted the bytes to send, or those the file holds when it is shorter
ChunksInBounds ==
  /\ \A i \in 1..Len(stream.chunks) :
        /\ stream.chunks[i].length \in 1..chunkSize
        /\ stream.chunks[i].position
             = stream.startPos + TotalLength(SubSeq(stream.chunks, 1, i - 1))
  /\ TotalLength(stream.chunks) <= stream.totalToRead
  /\ stream.streaming /\ stream.totalToRead = 0 => stream.chunks = <<>>
  /\ StreamComplete =>
        TotalLength(stream.chunks)
          = MathMin(stream.totalToRead,
                    IF stream.length > stream.startPos
                    THEN stream.length - stream.startPos ELSE 0)

\* C27: the read loop of a streamed body terminates; it reads contiguous
\* positions from the start of the range (or 0) in chunks of at most 64 KiB,
\* stops after the bytes to send or at the end of the file, and never emits
\* more than the bytes to send; when the file holds them, what it emitted
\* is Content-Length bytes, and no chunk at all for an empty file.
C27_ReadLoop ==
  /\ []ChunksInBounds
  /\ stream.pc = "reading" ~> stream.pc = "done"

\* a body of several chunks was emitted completely
C27_Witness ==
  /\ StreamComplete /\ Len(stream.chunks) >= 2
  /\ stream.chunks[Len(stream.chunks)].length < chunkSize
  /\ TotalLength(stream.chunks) = stream.totalToRead

\* C28: a request path that decodes and, joined to the root, stays inside
\* the root is never rejected, whatever its segments look like (a name
\* whose first segment starts with two dots included): resolveFilePath
\* reports it valid and the handler does not answer 403.
C28_NoFalseRejection ==
  Responded /\ request.method = "GET" /\ ~ResolvesOutside(request.pathname) =>
    /\ resolveFilePath(request.pathname, cfg.root).isValid
    /\ response.status # 403

\* a root that differs from Root in its own name only: the name starts
\* with a dot
DotRoot == <<"/", ".", "w">>

\* the location below DotRoot of a location below Root
Relocate(path) ==
  IF InsideRoot(path) THEN DotRoot \o SubSeq(path, Len(Root) + 1, Len(path)) ELSE path

\* the same tree with DotRoot in the place of Root
Relocated(f) ==
  LET Back(path) ==
        IF StartsWith(path, DotRoot)
        THEN Root \o SubSeq(path, Len(DotRoot) + 1, Len(path)) ELSE path
      Node(node) ==
        IF node.kind = "link" THEN LinkNode(Relocate(node.target)) ELSE node
  IN  [path \in {Relocate(q) : q \in DOMAIN f} |-> Node(f[Back(path)])]

\* the answer of the same server for the same tree below DotRoot
UnderDotRoot == handler(Relocated(fs), [cfg EXCEPT !.root = DotRoot], request)

\* a GET, not a revalidation with an ETag of the other root, for a path
\* that names the same location below either root
SameBelowBoth ==
  /\ Responded /\ request.method = "GET" /\ ~reval.active
  /\ ~ResolvesOutside(request.pathname)
  /\ resolve(DotRoot, StripLeadingSlashes(decodeURIComponent(request.pathname).value))
       = Relocate(Named(request.pathname))

\* C29: the dotfile decision depends on the segments of the request path
\* only: for a root whose own name starts with a dot and a request path
\* without a dot segment, shouldServeDotfile answers as it does for a root
\* without a dot in its name, and under deny or ignore the handler answers
\* with the same status.
C29_RootIndependent ==
  SameBelowBoth /\ ~HasDotSegment(request.pathname)
    /\ cfg.dotfiles \in {"deny", "ignore"} =>
    /\ index_shouldServeDotfile(resolveFilePath(request.pathname, DotRoot).filePath,
                                cfg.dotfiles)
         = index_shouldServeDotfile(resolveFilePath(request.pathname, cfg.root).filePath,
                                    cfg.dotfiles)
    /\ fsutils_shouldServeDotfile(resolveFilePath(request.pathname, DotRoot).filePath,
                                  cfg.dotfiles)
         = fsutils_shouldServeDotfile(resolveFilePath(request.pathname, cfg.root).filePath,
                                      cfg.dotfiles)
    /\ UnderDotRoot.status = response.status

\* C30: however the read loop and a cancellation by the consumer
\* interleave, no read is issued on the file handle after it was closed,
\* and close() is called on the handle exactly once: cancel() and the
\* finally block of the loop never both close it.
C30_CloseOnce ==
  /\ [][stream'.reads > stream.reads => stream.fileHandle # "closed"]_vars
  /\ [](stream.closeCalls <= 1)
  /\ [](stream.streaming /\ stream.pc = "done" /\ stream.fileHandle # "none"
          => stream.closeCalls = 1)

====
